---------------------------- MODULE Spec2Model ----------------------------
(***************************************************************************)
(* A model of stl-meshing: the STL triangle mesh object (stl.py) and the   *)
(* ray-casting point-in-volume classifier (points_inside.py).              *)
(*                                                                         *)
(* Numbers.  The program computes in float64.  The model computes exactly: *)
(* coordinates are integers, a scalar that the code obtains by a division  *)
(* is a fraction <<n, d>> with d > 0, and a ray direction drawn by         *)
(* np.random.rand(3) is a vector of numerators over RayDen, each in        *)
(* 0 .. RayDen - 1, so the direction lies in [0, 1)^3 as the code's does.  *)
(* Rounding error of the floating point operations is not modelled.        *)
(***************************************************************************)
EXTENDS Integers, Sequences, FiniteSets, TLC

VARIABLES
    n_triangles,    \* STL.n_triangles
    triangles,      \* STL.triangles: sequence of triangles <<v0, v1, v2>>
    normals,        \* STL.normals: sequence of vectors
    op,             \* the operation that ran last
    args,           \* its arguments
    err,            \* the exception it raised, NoError when it returned
    ret,            \* the value it returned
    work,           \* what it did on the way: bounding box taken, tests made
    repeat          \* the volume of the call before, when this call repeats it

vars == <<n_triangles, triangles, normals, op, args, err, ret, work, repeat>>

----------------------------------------------------------------------------
(* Bounds of the model *)

\* Ray directions are drawn from the multiples of 1/RayDen in [0, 1)
RayDen == 3

\* apply_scale is not called when a coordinate would leave -MaxCoord .. MaxCoord
MaxCoord == 2

\* np.zeros raises MemoryError for more than MaxAlloc triangles
MaxAlloc == 12

\* the triangle count field of a file that is no binary STL file
HugeCount == 538976288

----------------------------------------------------------------------------
(* Values *)

NoError == "none"
NoValue == "nothing"

\* The messages of the exceptions the code raises, or lets numpy, struct
\* and the interpreter raise
ShapesNotIdentical == "RuntimeError: Mesh shapes are not identical"
MeshNot3D == "RuntimeError: Mesh must be 3D"
OffsetNot1D == "RuntimeError: Offset array must be one dimensional"
OffsetNot3 == "RuntimeError: Offset array must have x, y and z components"
TupleNotCallable == "TypeError: 'tuple' object is not callable"
ZeroSizeReduction == "ValueError: zero-size array to reduction operation minimum which has no identity"
NoSuchFile == "FileNotFoundError"
UnpackShort == "struct.error: unpack requires a buffer"
OutOfMemory == "MemoryError: Unable to allocate"

Abs(x) == IF x < 0 THEN -x ELSE x

\* Vectors <<x, y, z>>
Sub(a, b) == <<a[1] - b[1], a[2] - b[2], a[3] - b[3]>>
Dot(a, b) == a[1] * b[1] + a[2] * b[2] + a[3] * b[3]
Cross(a, b) ==
    <<a[2] * b[3] - a[3] * b[2],
      a[3] * b[1] - a[1] * b[3],
      a[1] * b[2] - a[2] * b[1]>>

\* Fractions <<n, d>>, d > 0
Frac(n, d) == IF d < 0 THEN <<-n, -d>> ELSE <<n, d>>
FracLt(a, b) == a[1] * b[2] < b[1] * a[2]
FracAdd(a, b) == <<a[1] * b[2] + b[1] * a[2], a[2] * b[2]>>
OneMinus(a) == <<a[2] - a[1], a[2]>>

----------------------------------------------------------------------------
(* points_inside.py: _ray_intersects.  ray holds the numerators of the      *)
(* direction ray / RayDen, so pvec and det below are RayDen times the      *)
(* code's, and the quotients u and v are the code's.                       *)

\* _ray_intersects without its last test, t < tol
RayIntersectsNoT(triangle, ray, origin, tol) ==
    LET v0 == triangle[1]
        v1 == triangle[2]
        v2 == triangle[3]
        edge1 == Sub(v1, v0)
        edge2 == Sub(v2, v0)
        pvec == Cross(ray, edge2)
        det == Dot(edge1, pvec)
    IN  IF FracLt(Frac(Abs(det), RayDen), tol) THEN FALSE
        ELSE
        LET tvec == Sub(origin, v0)
            u == Frac(Dot(tvec, pvec), det)
        IN  IF FracLt(u, tol) \/ FracLt(OneMinus(tol), u) THEN FALSE
            ELSE
            LET qvec == Cross(tvec, edge1)
                v == Frac(Dot(ray, qvec), det)
            IN  ~(FracLt(v, tol) \/ FracLt(OneMinus(tol), FracAdd(u, v)))

\* _ray_intersects with the u test made without the tolerance
RayIntersectsLaxU(triangle, ray, origin, tol) ==
    LET v0 == triangle[1]
        v1 == triangle[2]
        v2 == triangle[3]
        edge1 == Sub(v1, v0)
        edge2 == Sub(v2, v0)
        pvec == Cross(ray, edge2)
        det == Dot(edge1, pvec)
    IN  IF FracLt(Frac(Abs(det), RayDen), tol) THEN FALSE
        ELSE
        LET tvec == Sub(origin, v0)
            u == Frac(Dot(tvec, pvec), det)
        IN  IF FracLt(u, <<0, 1>>) \/ FracLt(<<1, 1>>, u) THEN FALSE
            ELSE
            LET qvec == Cross(tvec, edge1)
                v == Frac(Dot(ray, qvec), det)
            IN  IF FracLt(v, tol) \/ FracLt(OneMinus(tol), FracAdd(u, v))
                THEN FALSE
                ELSE
                LET t == Frac(RayDen * Dot(edge2, qvec), det)
                IN  ~FracLt(t, tol)

\* _ray_intersects
RayIntersects(triangle, ray, origin, tol) ==
    LET v0 == triangle[1]
        v1 == triangle[2]
        v2 == triangle[3]
        edge1 == Sub(v1, v0)
        edge2 == Sub(v2, v0)
        pvec == Cross(ray, edge2)
        det == Dot(edge1, pvec)
    IN  \* Ray is parallel to the triangle
        IF FracLt(Frac(Abs(det), RayDen), tol) THEN FALSE
        ELSE
        \* inv_det = 1.0 / det; u = dot(tvec, pvec) * inv_det
        LET tvec == Sub(origin, v0)
            u == Frac(Dot(tvec, pvec), det)
        IN  IF FracLt(u, tol) \/ FracLt(OneMinus(tol), u) THEN FALSE
            ELSE
            LET qvec == Cross(tvec, edge1)
                v == Frac(Dot(ray, qvec), det)
            IN  IF FracLt(v, tol) \/ FracLt(OneMinus(tol), FracAdd(u, v))
                THEN FALSE
                ELSE
                LET t == Frac(RayDen * Dot(edge2, qvec), det)
                IN  ~FracLt(t, tol)

----------------------------------------------------------------------------
(* numpy arrays: a shape and one value per index tuple (0-based)           *)

MaxExtent(shape) ==
    IF Len(shape) = 0 THEN 0
    ELSE CHOOSE m \in {shape[d] : d \in 1..Len(shape)} :
            \A d \in 1..Len(shape) : shape[d] <= m

Cells(shape) ==
    {c \in [1..Len(shape) -> 0..(MaxExtent(shape) - 1)] :
        \A d \in 1..Len(shape) : c[d] < shape[d]}

Array(shape, value) == [shape |-> shape, data |-> [c \in Cells(shape) |-> value]]

----------------------------------------------------------------------------
(* stl.py: the STL object                                                  *)

ZeroTriangle == <<<<0, 0, 0>>, <<0, 0, 0>>, <<0, 0, 0>>>>
ZeroVector == <<0, 0, 0>>

\* np.zeros((n, 3, 3)) and np.zeros((n, 3))
ZeroTriangles(n) == [i \in 1..n |-> ZeroTriangle]
ZeroVectors(n) == [i \in 1..n |-> ZeroVector]

\* np.zeros cannot allocate the array
AllocFails(n) == n > MaxAlloc

\* STL.__init__ before it loads a file
NewSTL == [n_triangles |-> 0, triangles |-> ZeroTriangles(0),
           normals |-> ZeroVectors(0), err |-> NoError]

\* STL.load_file on the object self = [n_triangles, triangles, normals].
\* A file is missing, shorter than its header and count field ("short"), or
\* holds a count and a sequence of whole triangle records.
LoadFile(self, file) ==
    \* open(filename, "rb")
    IF file.kind = "missing" THEN [self EXCEPT !.err = NoSuchFile]
    \* struct.unpack of the count field
    ELSE IF file.kind = "short" THEN [self EXCEPT !.err = UnpackShort]
    ELSE
        LET n == file.count
            got == IF Len(file.recs) < n THEN Len(file.recs) ELSE n
        IN  \* self.n_triangles is assigned, then the arrays are allocated
            IF AllocFails(n)
            THEN [self EXCEPT !.n_triangles = n, !.err = OutOfMemory]
            ELSE [n_triangles |-> n,
                  triangles |-> [i \in 1..n |->
                      IF i <= got THEN file.recs[i].tri ELSE ZeroTriangle],
                  normals |-> [i \in 1..n |->
                      IF i <= got THEN file.recs[i].normal ELSE ZeroVector],
                  \* the read loop stops at the first record that is short
                  err |-> IF got < n THEN UnpackShort ELSE NoError]

\* The determinant of one triangle's vertex matrix, term by term as
\* STL.volume writes it
TriDet(t) ==
      (-(t[3][1]) * t[2][2] * t[1][3])
    + (t[2][1] * t[3][2] * t[1][3])
    + (t[3][1] * t[1][2] * t[2][3])
    + (-(t[1][1]) * t[3][2] * t[2][3])
    + (-(t[2][1]) * t[1][2] * t[3][3])
    + (t[1][1] * t[2][2] * t[3][3])

RECURSIVE SumDet(_, _)
SumDet(tris, n) == IF n = 0 THEN 0 ELSE SumDet(tris, n - 1) + TriDet(tris[n])

\* STL.volume without np.abs
VolumeSigned(tris) == Frac(SumDet(tris, Len(tris)), 6)

\* STL.volume: a fraction
Volume(tris) == Frac(Abs(SumDet(tris, Len(tris))), 6)

Coordinates(tris, axis) ==
    {tris[i][j][axis] : i \in 1..Len(tris), j \in 1..3}

MinOf(S) == CHOOSE x \in S : \A y \in S : x <= y
MaxOf(S) == CHOOSE x \in S : \A y \in S : y <= x

\* STL.bounding_box with a box of zeros for an array of size 0
BoundingBoxZeroOnEmpty(tris) ==
    IF Len(tris) = 0
    THEN [err |-> NoError, box |-> <<<<0, 0>>, <<0, 0>>, <<0, 0>>>>]
    ELSE [err |-> NoError,
          box |-> [a \in 1..3 |-> <<MinOf(Coordinates(tris, a)),
                                    MaxOf(Coordinates(tris, a))>>]]

\* STL.bounding_box over the magnitudes of the coordinates: the box that a
\* mesh mirrored by a negative scale factor had before it was mirrored
BoundingBoxOfMagnitudes(tris) ==
    IF Len(tris) = 0
    THEN [err |-> ZeroSizeReduction, box |-> NoValue]
    ELSE [err |-> NoError,
          box |-> [a \in 1..3 |->
              <<MinOf({Abs(x) : x \in Coordinates(tris, a)}),
                MaxOf({Abs(x) : x \in Coordinates(tris, a)})>>]]

\* STL.bounding_box; np.min raises on an array of size 0
BoundingBox(tris) ==
    IF Len(tris) = 0
    THEN [err |-> ZeroSizeReduction, box |-> NoValue]
    ELSE [err |-> NoError,
          box |-> [a \in 1..3 |-> <<MinOf(Coordinates(tris, a)),
                                    MaxOf(Coordinates(tris, a))>>]]

\* STL.apply_scale
ApplyScale(tris, scale_factor) ==
    [i \in 1..Len(tris) |->
        [j \in 1..3 |-> [a \in 1..3 |-> tris[i][j][a] * scale_factor]]]

\* offset.shape(0): offset.shape is a tuple, and calling it raises
CallShape(shape, d) == [err |-> TupleNotCallable, value |-> NoValue]

\* STL.shift_object
ShiftObject(tris, offset) ==
    IF Len(offset.shape) # 1
    THEN [err |-> OffsetNot1D, triangles |-> tris]
    ELSE
        LET n == CallShape(offset.shape, 0)
        IN  IF n.err # NoError
            THEN [err |-> n.err, triangles |-> tris]
            ELSE IF n.value # 3
            THEN [err |-> OffsetNot3, triangles |-> tris]
            ELSE [err |-> NoError,
                  triangles |-> [i \in 1..Len(tris) |-> [j \in 1..3 |->
                      [a \in 1..3 |-> tris[i][j][a] + offset.data[<<a - 1>>]]]]]

----------------------------------------------------------------------------
(* points_inside.py: _check_points and points_inside                       *)

\* The bounding box test with the faces of the box counted as outside
OutsideBoxLax(point, bounding_box) ==
    \E a \in 1..3 :
        point[a] <= bounding_box[a][1] \/ point[a] >= bounding_box[a][2]

\* The bounding box test of one query point
OutsideBox(point, bounding_box) ==
    \/ point[1] < bounding_box[1][1]
    \/ point[1] > bounding_box[1][2]
    \/ point[2] < bounding_box[2][1]
    \/ point[2] > bounding_box[2][2]
    \/ point[3] < bounding_box[3][1]
    \/ point[3] > bounding_box[3][2]

\* for n in range(n_triangles): the count after the first n triangles, and
\* the calls of _ray_intersects made so far
RECURSIVE CountLoop(_, _, _, _, _)
CountLoop(tris, ray, point, tol, n) ==
    IF n = 0 THEN [count |-> 0, calls |-> <<>>]
    ELSE
        LET before == CountLoop(tris, ray, point, tol, n - 1)
            hit == RayIntersects(tris[n], ray, point, tol)
        IN  [count |-> before.count + (IF hit THEN 1 ELSE 0),
             calls |-> Append(before.calls,
                              [n |-> n, tol |-> tol, hit |-> hit])]

NoRay == <<>>

\* The body of the loop for one cell: the value written to inside[i, j, k],
\* the ray drawn and the calls of _ray_intersects
CheckCell(tris, bounding_box, point, ray, tol) ==
    IF OutsideBox(point, bounding_box)
    THEN [value |-> 0, ray |-> NoRay, calls |-> <<>>]
    ELSE
        LET r == CountLoop(tris, ray, point, tol, Len(tris))
        IN  [value |-> r.count % 2, ray |-> ray, calls |-> r.calls]

\* tol=1e-4, the default of _check_points
CheckPointsTol == <<1, 10000>>

\* _check_points called without the caller's tol
CheckPointsDefaultTol(tris, bounding_box, mesh_x, mesh_y, mesh_z, tol, rays) ==
    [shape |-> mesh_x.shape,
     cells |-> [c \in Cells(mesh_x.shape) |->
         CheckCell(tris, bounding_box,
                   <<mesh_x.data[c], mesh_y.data[c], mesh_z.data[c]>>,
                   rays[c], CheckPointsTol)]]

\* _check_points: rays[c] is what np.random.rand(3) gives at cell c, should
\* the cell come to draw a ray
CheckPoints(tris, bounding_box, mesh_x, mesh_y, mesh_z, tol, rays) ==
    [shape |-> mesh_x.shape,
     cells |-> [c \in Cells(mesh_x.shape) |->
         CheckCell(tris, bounding_box,
                   <<mesh_x.data[c], mesh_y.data[c], mesh_z.data[c]>>,
                   rays[c], tol)]]

NoWork == [bbox |-> FALSE, cells |-> <<>>]

\* points_inside, with the bounding box taken before the grids are checked
PointsInsideBoxFirst(tris, mesh_x, mesh_y, mesh_z, tol, rays) ==
    LET bb == BoundingBox(tris)
    IN  IF bb.err # NoError
        THEN [err |-> bb.err, ret |-> NoValue,
              work |-> [bbox |-> TRUE, cells |-> <<>>]]
        ELSE IF mesh_x.shape # mesh_y.shape \/ mesh_x.shape # mesh_z.shape
        THEN [err |-> ShapesNotIdentical, ret |-> NoValue,
              work |-> [bbox |-> TRUE, cells |-> <<>>]]
        ELSE IF Len(mesh_x.shape) # 3
        THEN [err |-> MeshNot3D, ret |-> NoValue,
              work |-> [bbox |-> TRUE, cells |-> <<>>]]
        ELSE
            LET r == CheckPoints(tris, bb.box, mesh_x, mesh_y, mesh_z,
                                 tol, rays)
            IN  [err |-> NoError,
                 ret |-> [shape |-> r.shape,
                          data |-> [c \in DOMAIN r.cells |->
                                        r.cells[c].value]],
                 work |-> [bbox |-> TRUE,
                           cells |-> [c \in DOMAIN r.cells |->
                               [ray |-> r.cells[c].ray,
                                calls |-> r.cells[c].calls]]]]

\* points_inside: what it raises or returns, and the work it did
PointsInside(tris, mesh_x, mesh_y, mesh_z, tol, rays) ==
    IF mesh_x.shape # mesh_y.shape \/ mesh_x.shape # mesh_z.shape
    THEN [err |-> ShapesNotIdentical, ret |-> NoValue, work |-> NoWork]
    ELSE IF Len(mesh_x.shape) # 3
    THEN [err |-> MeshNot3D, ret |-> NoValue, work |-> NoWork]
    ELSE
        LET bb == BoundingBox(tris)
        IN  IF bb.err # NoError
            THEN [err |-> bb.err, ret |-> NoValue,
                  work |-> [bbox |-> TRUE, cells |-> <<>>]]
            ELSE
                LET r == CheckPoints(tris, bb.box, mesh_x, mesh_y, mesh_z,
                                     tol, rays)
                IN  [err |-> NoError,
                     ret |-> [shape |-> r.shape,
                              data |-> [c \in DOMAIN r.cells |->
                                            r.cells[c].value]],
                     work |-> [bbox |-> TRUE,
                               cells |-> [c \in DOMAIN r.cells |->
                                   [ray |-> r.cells[c].ray,
                                    calls |-> r.cells[c].calls]]]]

----------------------------------------------------------------------------
(* The inputs the operations are called with                               *)

\* A unit cube with a corner at the origin, wound outward
CubeRecords == <<
    [normal |-> <<-1, 0, 0>>, tri |-> <<<<0, 0, 0>>, <<0, 0, 1>>, <<0, 1, 1>>>>],
    [normal |-> <<-1, 0, 0>>, tri |-> <<<<0, 0, 0>>, <<0, 1, 1>>, <<0, 1, 0>>>>],
    [normal |-> <<1, 0, 0>>, tri |-> <<<<1, 0, 0>>, <<1, 1, 0>>, <<1, 1, 1>>>>],
    [normal |-> <<1, 0, 0>>, tri |-> <<<<1, 0, 0>>, <<1, 1, 1>>, <<1, 0, 1>>>>],
    [normal |-> <<0, -1, 0>>, tri |-> <<<<0, 0, 0>>, <<1, 0, 0>>, <<1, 0, 1>>>>],
    [normal |-> <<0, -1, 0>>, tri |-> <<<<0, 0, 0>>, <<1, 0, 1>>, <<0, 0, 1>>>>],
    [normal |-> <<0, 1, 0>>, tri |-> <<<<0, 1, 0>>, <<0, 1, 1>>, <<1, 1, 1>>>>],
    [normal |-> <<0, 1, 0>>, tri |-> <<<<0, 1, 0>>, <<1, 1, 1>>, <<1, 1, 0>>>>],
    [normal |-> <<0, 0, -1>>, tri |-> <<<<0, 0, 0>>, <<0, 1, 0>>, <<1, 1, 0>>>>],
    [normal |-> <<0, 0, -1>>, tri |-> <<<<0, 0, 0>>, <<1, 1, 0>>, <<1, 0, 0>>>>],
    [normal |-> <<0, 0, 1>>, tri |-> <<<<0, 0, 1>>, <<1, 0, 1>>, <<1, 1, 1>>>>],
    [normal |-> <<0, 0, 1>>, tri |-> <<<<0, 0, 1>>, <<1, 1, 1>>, <<0, 1, 1>>>>]
>>

\* The same triangles with the vertex order of each reversed: wound inward
Reversed(recs) ==
    [i \in 1..Len(recs) |->
        [normal |-> recs[i].normal,
         tri |-> <<recs[i].tri[1], recs[i].tri[3], recs[i].tri[2]>>]]

CubeOutFile == [kind |-> "stl", count |-> 12, recs |-> CubeRecords]
CubeInFile == [kind |-> "stl", count |-> 12, recs |-> Reversed(CubeRecords)]
EmptyFile == [kind |-> "stl", count |-> 0, recs |-> <<>>]
\* a count of two and one whole record
TruncatedFile == [kind |-> "stl", count |-> 2, recs |-> SubSeq(CubeRecords, 1, 1)]
\* a count field no machine allocates, as that of a text file
HugeFile == [kind |-> "stl", count |-> HugeCount, recs |-> <<>>]
MissingFile == [kind |-> "missing"]
ShortFile == [kind |-> "short"]
\* STL(): filename=None
NoFile == [kind |-> "none"]

Files == {CubeOutFile, CubeInFile, EmptyFile, TruncatedFile, HugeFile,
          MissingFile, ShortFile}

Scales == {-1, 2}

\* A one-dimensional array of the given components
Vec(seq) ==
    [shape |-> <<Len(seq)>>,
     data |-> [c \in Cells(<<Len(seq)>>) |-> seq[c[1] + 1]]]

Offsets == {Vec(<<1, 0, 0>>), Vec(<<1, 1>>), Array(<<1, 3>>, 1),
            Array(<<>>, 1)}

Shapes == {<<2>>, <<1, 1, 1>>, <<1, 1, 2>>}

QueryPoints == {<<1, 1, 1>>, <<3, 1, 1>>}

\* Every direction np.random.rand(3) can give, to the model's resolution
Rays == {<<a, b, c>> : a \in 0..(RayDen - 1), b \in 0..(RayDen - 1),
                       c \in 0..(RayDen - 1)}

SampleRays == {<<1, 2, 0>>, <<1, 1, 1>>}

\* tol, a fraction
Tols == {<<1, 8>>, <<1, 1000>>}

----------------------------------------------------------------------------
(* The operations                                                          *)

NoRepeat == [same |-> FALSE, ret |-> NoValue]

Init ==
    /\ n_triangles = NewSTL.n_triangles
    /\ triangles = NewSTL.triangles
    /\ normals = NewSTL.normals
    /\ op = "STL"
    /\ args = NoFile
    /\ err = NoError
    /\ ret = NoValue
    /\ work = NoWork
    /\ repeat = NoRepeat

Self == [n_triangles |-> n_triangles, triangles |-> triangles,
         normals |-> normals, err |-> NoError]

\* stl = STL(filename): the name is bound to the new object unless the
\* constructor raises
Construct ==
    \E file \in Files \cup {NoFile} :
        LET r == IF file.kind = "none" THEN NewSTL ELSE LoadFile(NewSTL, file)
        IN  /\ op' = "STL"
            /\ args' = file
            /\ err' = r.err
            /\ IF r.err = NoError
               THEN /\ n_triangles' = r.n_triangles
                    /\ triangles' = r.triangles
                    /\ normals' = r.normals
               ELSE UNCHANGED <<n_triangles, triangles, normals>>
            /\ ret' = NoValue
            /\ work' = NoWork
            /\ repeat' = NoRepeat

\* stl.load_file(filename)
LoadFileCall ==
    \E file \in Files :
        LET r == LoadFile(Self, file)
        IN  /\ op' = "load_file"
            /\ args' = file
            /\ err' = r.err
            /\ n_triangles' = r.n_triangles
            /\ triangles' = r.triangles
            /\ normals' = r.normals
            /\ ret' = NoValue
            /\ work' = NoWork
            /\ repeat' = NoRepeat

InRange(tris) ==
    \A i \in 1..Len(tris), j \in 1..3, a \in 1..3 :
        Abs(tris[i][j][a]) <= MaxCoord

\* stl.apply_scale(scale_factor)
ApplyScaleCall ==
    \E scale_factor \in Scales :
        /\ InRange(ApplyScale(triangles, scale_factor))
        /\ op' = "apply_scale"
        /\ args' = scale_factor
        /\ err' = NoError
        /\ triangles' = ApplyScale(triangles, scale_factor)
        /\ ret' = NoValue
        /\ work' = NoWork
        /\ repeat' = NoRepeat
        /\ UNCHANGED <<n_triangles, normals>>

\* stl.shift_object(offset)
ShiftObjectCall ==
    \E offset \in Offsets :
        LET r == ShiftObject(triangles, offset)
        IN  /\ InRange(r.triangles)
            /\ op' = "shift_object"
            /\ args' = offset
            /\ err' = r.err
            /\ triangles' = r.triangles
            /\ ret' = NoValue
            /\ work' = NoWork
            /\ repeat' = NoRepeat
            /\ UNCHANGED <<n_triangles, normals>>

\* stl.volume()
VolumeCall ==
    /\ op' = "volume"
    /\ args' = NoValue
    /\ err' = NoError
    /\ ret' = Volume(triangles)
    /\ work' = NoWork
    /\ repeat' = NoRepeat
    /\ UNCHANGED <<n_triangles, triangles, normals>>

\* stl.bounding_box()
BoundingBoxCall ==
    LET r == BoundingBox(triangles)
    IN  /\ op' = "bounding_box"
        /\ args' = NoValue
        /\ err' = r.err
        /\ ret' = r.box
        /\ work' = NoWork
        /\ repeat' = NoRepeat
        /\ UNCHANGED <<n_triangles, triangles, normals>>

\* Two calls drew the same ray in every cell where both drew one (a cell
\* outside the bounding box draws none)
SameRays(w1, w2) ==
    /\ DOMAIN w1.cells = DOMAIN w2.cells
    /\ \A c \in DOMAIN w1.cells :
          \/ w1.cells[c].ray = NoRay
          \/ w2.cells[c].ray = NoRay
          \/ w1.cells[c].ray = w2.cells[c].ray

\* points_inside leaving the triangles of the object mirrored in place
PointsInsideWithInPlace(sx, sy, sz, pts, rays, tol) ==
    LET mesh_x == [shape |-> sx, data |-> [c \in Cells(sx) |-> pts[c][1]]]
        mesh_y == [shape |-> sy, data |-> [c \in Cells(sy) |->
                      IF c \in DOMAIN pts THEN pts[c][2] ELSE 0]]
        mesh_z == [shape |-> sz, data |-> [c \in Cells(sz) |->
                      IF c \in DOMAIN pts THEN pts[c][3] ELSE 0]]
        call == [mesh_x |-> mesh_x, mesh_y |-> mesh_y, mesh_z |-> mesh_z,
                 tol |-> tol]
        r == PointsInside(triangles, mesh_x, mesh_y, mesh_z, tol, rays)
    IN  /\ op' = "points_inside"
        /\ args' = call
        /\ err' = r.err
        /\ ret' = r.ret
        /\ work' = r.work
        /\ repeat' =
              IF /\ op = "points_inside"
                 /\ err = NoError
                 /\ r.err = NoError
                 /\ args = call
                 /\ SameRays(work, r.work)
              THEN [same |-> TRUE, ret |-> ret]
              ELSE NoRepeat
        /\ triangles' = IF r.err = NoError THEN ApplyScale(triangles, -1)
                        ELSE triangles
        /\ UNCHANGED <<n_triangles, normals>>

\* points_inside(stl, mesh_x, mesh_y, mesh_z, tol) with grids of the shapes
\* sx, sy, sz, the points pts and, per cell, the direction rays[c] for
\* np.random.rand(3) to give
PointsInsideWith(sx, sy, sz, pts, rays, tol) ==
    LET mesh_x == [shape |-> sx, data |-> [c \in Cells(sx) |-> pts[c][1]]]
        mesh_y == [shape |-> sy, data |-> [c \in Cells(sy) |->
                      IF c \in DOMAIN pts THEN pts[c][2] ELSE 0]]
        mesh_z == [shape |-> sz, data |-> [c \in Cells(sz) |->
                      IF c \in DOMAIN pts THEN pts[c][3] ELSE 0]]
        call == [mesh_x |-> mesh_x, mesh_y |-> mesh_y, mesh_z |-> mesh_z,
                 tol |-> tol]
        r == PointsInside(triangles, mesh_x, mesh_y, mesh_z, tol, rays)
    IN  /\ op' = "points_inside"
        /\ args' = call
        /\ err' = r.err
        /\ ret' = r.ret
        /\ work' = r.work
        /\ repeat' =
              IF /\ op = "points_inside"
                 /\ err = NoError
                 /\ r.err = NoError
                 /\ args = call
                 /\ SameRays(work, r.work)
              THEN [same |-> TRUE, ret |-> ret]
              ELSE NoRepeat
        /\ UNCHANGED <<n_triangles, triangles, normals>>

\* A first call, with any grids and tolerance.  points_inside changes nothing
\* of the object, so a call with other arguments right after a call is the
\* step that the same call takes after any query, and is left to that one.
PointsInsideCall ==
    /\ op # "points_inside"
    /\ \E sx \in Shapes, sy \in Shapes, sz \in Shapes, tol \in Tols :
        LET valid == sx = sy /\ sx = sz /\ Len(sx) = 3
        IN  \E pts \in [Cells(sx) ->
                          IF valid THEN QueryPoints ELSE {<<0, 0, 0>>}] :
            \E rays \in [Cells(sx) ->
                          IF valid /\ Len(triangles) > 0
                          THEN SampleRays ELSE {<<0, 0, 0>>}] :
                PointsInsideWith(sx, sy, sz, pts, rays, tol)

\* The caller repeats the call it has just made, with the same grids and
\* tolerance; np.random.rand draws again
PointsInsideAgain ==
    /\ op = "points_inside"
    /\ LET sx == args.mesh_x.shape
           pts == [c \in Cells(sx) |->
                     <<args.mesh_x.data[c],
                       IF c \in DOMAIN args.mesh_y.data
                       THEN args.mesh_y.data[c] ELSE 0,
                       IF c \in DOMAIN args.mesh_z.data
                       THEN args.mesh_z.data[c] ELSE 0>>]
       IN  \E rays \in [Cells(sx) ->
                          IF err = NoError THEN SampleRays ELSE {<<0, 0, 0>>}] :
               PointsInsideWith(sx, args.mesh_y.shape, args.mesh_z.shape,
                                pts, rays, args.tol)

Next ==
    \/ Construct
    \/ LoadFileCall
    \/ ApplyScaleCall
    \/ ShiftObjectCall
    \/ VolumeCall
    \/ BoundingBoxCall
    \/ PointsInsideCall
    \/ PointsInsideAgain

Spec == Init /\ [][Next]_vars

----------------------------------------------------------------------------
(* _ray_intersects on its own: one call on a triangle, a ray, an origin    *)
(* and a tolerance drawn from the sets below                               *)

RayTriangles ==
    {<<<<0, 0, 2>>, <<4, 0, 2>>, <<0, 4, 2>>>>,
     <<<<0, 0, 2>>, <<0, 4, 2>>, <<4, 0, 2>>>>,
     <<<<4, 0, 0>>, <<4, 4, 0>>, <<4, 4, 4>>>>,
     <<<<0, 0, 0>>, <<4, 0, 4>>, <<0, 4, 4>>>>}

RayOrigins == {<<x, y, z>> : x \in 0..3, y \in 0..3, z \in 0..3}

RayTols == {<<1, 4>>, <<1, 1000>>}

InitRay ==
    /\ n_triangles = NewSTL.n_triangles
    /\ triangles = NewSTL.triangles
    /\ normals = NewSTL.normals
    /\ op = "call"
    /\ args \in [triangle : RayTriangles, ray : Rays, origin : RayOrigins,
                 tol : RayTols]
    /\ err = NoError
    /\ ret = NoValue
    /\ work = NoWork
    /\ repeat = NoRepeat

RayIntersectsCall ==
    /\ op = "call"
    /\ op' = "_ray_intersects"
    /\ ret' = RayIntersects(args.triangle, args.ray, args.origin, args.tol)
    /\ UNCHANGED <<n_triangles, triangles, normals, args, err, work, repeat>>

NextRay == RayIntersectsCall

SpecRay == InitRay /\ [][NextRay]_vars

----------------------------------------------------------------------------
(* The classifier on a closed convex surface: the cube of edge 4 that      *)
(* load_file and two calls of apply_scale(2) make of the unit cube, wound  *)
(* outward or inward, and one query point per call                         *)

ConvexMeshes == {CubeOutFile, CubeInFile}

\* the 27 points strictly inside, and points outside on either side
ConvexPoints ==
    {<<x, y, z>> : x \in 1..3, y \in 1..3, z \in 1..3}
        \cup {<<-1, 2, 2>>, <<5, 1, 3>>, <<2, 5, 1>>, <<1, 2, -1>>}

ConvexTols == {<<1, 8>>, <<1, 1000>>}

InitConvex ==
    \E file \in ConvexMeshes :
        LET r == LoadFile(NewSTL, file)
        IN  /\ n_triangles = r.n_triangles
            /\ triangles = ApplyScale(ApplyScale(r.triangles, 2), 2)
            /\ normals = r.normals
            /\ op = "apply_scale"
            /\ args = 2
            /\ err = NoError
            /\ ret = NoValue
            /\ work = NoWork
            /\ repeat = NoRepeat

OneCell == <<1, 1, 1>>

ClassifyPoint ==
    /\ op # "points_inside"
    /\ \E point \in ConvexPoints, ray \in Rays, tol \in ConvexTols :
        PointsInsideWith(OneCell, OneCell, OneCell,
                         [c \in Cells(OneCell) |-> point],
                         [c \in Cells(OneCell) |-> ray], tol)

NextConvex == ClassifyPoint

SpecConvex == InitConvex /\ [][NextConvex]_vars

----------------------------------------------------------------------------
(* _check_points step by step: for i, for j in sequence, and the           *)
(* iterations k of numba.prange run by workers in any interleaving.  The   *)
(* locals of the pass are kept in work: the loop indices i and j, and per  *)
(* iteration k its position pc, its point, ray, n and intersection_count;  *)
(* inside is the output array.  rays, writes and reads record the rays     *)
(* drawn per cell, the iterations that assigned each cell of inside, and   *)
(* the cells of inside an iteration has read.                              *)

ParShape == <<1, 2, 2>>

ParTol == <<1, 8>>

\* The index with k left out: every iteration of a row takes its first cell
InsideIndexOfRow(i, j, k) == <<i, j, 0>>

\* inside[i, j, k]
InsideIndex(i, j, k) == <<i, j, k>>

Workers == 0..(ParShape[3] - 1)

\* the locals of the iterations of numba.prange as a row begins
FreshRow ==
    [pc |-> [k \in Workers |-> "point"],
     ray |-> [k \in Workers |-> NoRay],
     n |-> [k \in Workers |-> 0],
     intersection_count |-> [k \in Workers |-> 0]]

InitPar ==
    LET r == LoadFile(NewSTL, CubeOutFile)
    IN  /\ n_triangles = r.n_triangles
        /\ triangles = ApplyScale(r.triangles, 2)
        /\ normals = r.normals
        /\ op = "apply_scale"
        /\ args = 2
        /\ err = NoError
        /\ ret = NoValue
        /\ work = NoWork
        /\ repeat = NoRepeat

\* points_inside up to the first row of _check_points: the grids are
\* checked, the bounding box is taken and inside is np.zeros
StartPass ==
    /\ op # "_check_points"
    /\ \E pts \in [Cells(ParShape) -> QueryPoints] :
        LET grid(a) == [shape |-> ParShape,
                        data |-> [c \in Cells(ParShape) |-> pts[c][a]]]
            bb == BoundingBox(triangles)
        IN  /\ bb.err = NoError
            /\ op' = "_check_points"
            /\ args' = [mesh_x |-> grid(1), mesh_y |-> grid(2),
                        mesh_z |-> grid(3), tol |-> ParTol]
            /\ err' = NoError
            /\ ret' = NoValue
            /\ work' = [bbox |-> TRUE,
                        bounding_box |-> bb.box,
                        i |-> 0, j |-> 0,
                        row |-> FreshRow,
                        inside |-> Array(ParShape, 0).data,
                        rays |-> [c \in Cells(ParShape) |-> NoRay],
                        writes |-> [c \in Cells(ParShape) |-> <<>>],
                        reads |-> {}]
            /\ UNCHANGED <<n_triangles, triangles, normals, repeat>>

Running == op = "_check_points" /\ work.i < ParShape[1]

\* the point of iteration k
PointOf(k) ==
    LET c == <<work.i, work.j, k>>
    IN  <<args.mesh_x.data[c], args.mesh_y.data[c], args.mesh_z.data[c]>>

\* inside[cell] = value by iteration k
Assign(w, cell, value, k) ==
    [w EXCEPT !.inside[cell] = value,
              !.writes[cell] = Append(@, <<w.i, w.j, k>>),
              !.row.pc[k] = "done"]

\* Iteration k from its first line to the bounding box test: either
\* inside[i, j, k] = 0 and continue, or intersection_count = 0 and the ray
\* is drawn
WorkerPoint(k) ==
    /\ Running
    /\ work.row.pc[k] = "point"
    /\ IF OutsideBox(PointOf(k), work.bounding_box)
       THEN work' = Assign(work, InsideIndex(work.i, work.j, k), 0, k)
       ELSE \E ray \in SampleRays :
               work' = [work EXCEPT
                           !.row.pc[k] = "loop",
                           !.row.ray[k] = ray,
                           !.row.n[k] = 0,
                           !.row.intersection_count[k] = 0,
                           !.rays[<<work.i, work.j, k>>] = ray]
    /\ UNCHANGED <<n_triangles, triangles, normals, op, args, err, ret, repeat>>

\* Iteration k: one turn of for n in range(n_triangles)
WorkerTest(k) ==
    /\ Running
    /\ work.row.pc[k] = "loop"
    /\ work.row.n[k] < Len(triangles)
    /\ LET hit == RayIntersects(triangles[work.row.n[k] + 1], work.row.ray[k],
                                PointOf(k), args.tol)
       IN  work' = [work EXCEPT
                       !.row.n[k] = @ + 1,
                       !.row.intersection_count[k] =
                           @ + (IF hit THEN 1 ELSE 0)]
    /\ UNCHANGED <<n_triangles, triangles, normals, op, args, err, ret, repeat>>

\* Iteration k: inside[i, j, k] = intersection_count % 2
WorkerWrite(k) ==
    /\ Running
    /\ work.row.pc[k] = "loop"
    /\ work.row.n[k] = Len(triangles)
    /\ work' = Assign(work, InsideIndex(work.i, work.j, k),
                      work.row.intersection_count[k] % 2, k)
    /\ UNCHANGED <<n_triangles, triangles, normals, op, args, err, ret, repeat>>

\* The end of numba.prange: every iteration of the row is done, and the
\* loops over j and i go on to the next row
NextRow ==
    /\ Running
    /\ \A k \in Workers : work.row.pc[k] = "done"
    /\ work' = [work EXCEPT
                   !.row = FreshRow,
                   !.j = IF work.j + 1 < ParShape[2] THEN work.j + 1 ELSE 0,
                   !.i = IF work.j + 1 < ParShape[2] THEN work.i
                         ELSE work.i + 1]
    /\ UNCHANGED <<n_triangles, triangles, normals, op, args, err, ret, repeat>>

\* return inside
ReturnInside ==
    /\ op = "_check_points"
    /\ work.i = ParShape[1]
    /\ op' = "points_inside"
    /\ ret' = [shape |-> ParShape, data |-> work.inside]
    /\ UNCHANGED <<n_triangles, triangles, normals, args, err, work, repeat>>

NextPar ==
    \/ StartPass
    \/ \E k \in Workers : WorkerPoint(k)
    \/ \E k \in Workers : WorkerTest(k)
    \/ \E k \in Workers : WorkerWrite(k)
    \/ NextRow
    \/ ReturnInside

SpecPar == InitPar /\ [][NextPar]_vars

----------------------------------------------------------------------------
(* What the claims speak of                                                *)

\* The query point of cell c in the call that ran last
QueryPoint(c) == <<args.mesh_x.data[c], args.mesh_y.data[c], args.mesh_z.data[c]>>

ValidGrids ==
    /\ args.mesh_x.shape = args.mesh_y.shape
    /\ args.mesh_x.shape = args.mesh_z.shape
    /\ Len(args.mesh_x.shape) = 3

\* p lies below every vertex or above every vertex of the mesh on some axis
StrictlyOutsideBox(p) ==
    \E a \in 1..3 :
        \/ \A x \in Coordinates(triangles, a) : p[a] < x
        \/ \A x \in Coordinates(triangles, a) : p[a] > x

\* p is not outside the box and lies on the plane of one of its faces
OnBoxFace(p) ==
    /\ ~StrictlyOutsideBox(p)
    /\ \E a \in 1..3 :
        \/ \A x \in Coordinates(triangles, a) : p[a] <= x
        \/ \A x \in Coordinates(triangles, a) : p[a] >= x

Returned == op = "points_inside" /\ err = NoError

(* C1: points_inside raises "Mesh shapes are not identical" (ShapeMismatch) *)
(* when the three grids do not all have one shape, and "Mesh must be 3D"    *)
(* (DimensionError) when they share a shape that is not 3-dimensional; in   *)
(* both cases the bounding box has not been computed, no ray/triangle test  *)
(* has run, no cell has been written and nothing is returned.               *)
C1_GridsCheckedFirst ==
    op = "points_inside" =>
        /\ (args.mesh_x.shape # args.mesh_y.shape
                \/ args.mesh_x.shape # args.mesh_z.shape)
            => /\ err = ShapesNotIdentical
               /\ work.bbox = FALSE
               /\ work.cells = <<>>
               /\ ret = NoValue
        /\ (/\ args.mesh_x.shape = args.mesh_y.shape
            /\ args.mesh_x.shape = args.mesh_z.shape
            /\ Len(args.mesh_x.shape) # 3)
            => /\ err = MeshNot3D
               /\ work.bbox = FALSE
               /\ work.cells = <<>>
               /\ ret = NoValue

\* Grids of different shapes, none of them 3-dimensional, on a mesh whose
\* bounding box cannot be computed: the shapes are what is reported
C1_Witness ==
    /\ op = "points_inside"
    /\ err = ShapesNotIdentical
    /\ Len(args.mesh_x.shape) # 3
    /\ Len(triangles) = 0

(* C2: a query point strictly outside the bounding box on some axis gets 0  *)
(* and no ray/triangle test; a grid wholly outside the box gives an         *)
(* all-zero volume with no test at all; a point that is not strictly        *)
(* outside, one on a face of the box included, is tested against the        *)
(* triangles.                                                               *)
C2_BoxShortCircuit ==
    Returned =>
        /\ \A c \in DOMAIN ret.data :
            IF StrictlyOutsideBox(QueryPoint(c))
            THEN /\ ret.data[c] = 0
                 /\ work.cells[c].calls = <<>>
            ELSE Len(work.cells[c].calls) > 0
        /\ (\A c \in DOMAIN ret.data : StrictlyOutsideBox(QueryPoint(c)))
            => \A c \in DOMAIN ret.data :
                  ret.data[c] = 0 /\ Len(work.cells[c].calls) = 0

\* One cell strictly outside the box and one on a face of it
C2_Witness ==
    /\ Returned
    /\ \E c \in DOMAIN ret.data :
        StrictlyOutsideBox(QueryPoint(c)) /\ ret.data[c] = 0
    /\ \E c \in DOMAIN ret.data :
        OnBoxFace(QueryPoint(c)) /\ Len(work.cells[c].calls) > 0

(* C3: for every query point the box does not short-circuit, the ray is     *)
(* tested against every triangle exactly once, in order, with the caller's  *)
(* tolerance, and the cell is 1 iff the number of true results is odd; the  *)
(* volume has the shape of the grid and every cell is 0 or 1.               *)
C3_ParityOverAllTriangles ==
    Returned =>
        /\ ret.shape = args.mesh_x.shape
        /\ DOMAIN ret.data = Cells(args.mesh_x.shape)
        /\ \A c \in DOMAIN ret.data :
            /\ ret.data[c] \in {0, 1}
            /\ ~StrictlyOutsideBox(QueryPoint(c)) =>
                LET calls == work.cells[c].calls
                    hits == {n \in 1..Len(calls) : calls[n].hit}
                IN  /\ Len(calls) = Len(triangles)
                    /\ \A n \in 1..Len(calls) :
                        /\ calls[n].n = n
                        /\ calls[n].tol = args.tol
                    /\ (ret.data[c] = 1) <=> (Cardinality(hits) % 2 = 1)

\* A two-cell grid with a cell that had all twelve tests and came out 1
C3_Witness ==
    /\ Returned
    /\ Cardinality(DOMAIN ret.data) = 2
    /\ \E c \in DOMAIN ret.data :
        /\ Len(work.cells[c].calls) = 12
        /\ ret.data[c] = 1

C7_EmptyMeshRaises ==
    Len(triangles) = 0 =>
        /\ op = "bounding_box" => (err = ZeroSizeReduction /\ ret = NoValue)
        /\ (op = "points_inside" /\ ValidGrids)
            => /\ err = ZeroSizeReduction
               /\ ret = NoValue
               /\ work.cells = <<>>

\* A classification asked of the mesh STL() makes
C7_Witness ==
    /\ Len(triangles) = 0
    /\ op = "points_inside"
    /\ ValidGrids
    /\ err = ZeroSizeReduction

(* C8: shift_object with an offset of exactly 3 components succeeds and    *)
(* adds the offset to every vertex of every triangle; with any other       *)
(* offset it raises and leaves the triangles as they were.                 *)
C8_ShiftObject ==
    [][op' = "shift_object" =>
        IF args'.shape = <<3>>
        THEN /\ err' = NoError
             /\ triangles' = [i \in 1..Len(triangles) |-> [j \in 1..3 |->
                    [a \in 1..3 |-> triangles[i][j][a] + args'.data[<<a - 1>>]]]]
        ELSE /\ err' # NoError
             /\ triangles' = triangles]_vars

(* C9: the number of normals, the number of triangles and n_triangles are  *)
(* equal in every state, whatever calls were made and whichever failed.    *)
C9_CountsAgree ==
    /\ Len(normals) = Len(triangles)
    /\ n_triangles = Len(triangles)

\* The triangles of a file's records
Tris(recs) == [i \in 1..Len(recs) |-> recs[i].tri]

\* The same triangles, each with its vertex order reversed
ReverseAll(tris) == [i \in 1..Len(tris) |-> <<tris[i][1], tris[i][3], tris[i][2]>>]

UnitCubes ==
    {Tris(CubeRecords), ReverseAll(Tris(CubeRecords)),
     ApplyScale(Tris(CubeRecords), -1),
     ApplyScale(ReverseAll(Tris(CubeRecords)), -1)}

(* C10: volume() of a unit cube is 1 whether its triangles are all wound    *)
(* outward or all wound inward, and reversing the vertex order of every     *)
(* triangle of a mesh leaves volume() as it is.                             *)
C10_VolumeOfUnitCube ==
    op = "volume" =>
        /\ triangles \in UnitCubes => ret[1] = 1 * ret[2]
        /\ Volume(ReverseAll(triangles)) = ret

\* The volume of the cube wound inward
C10_Witness ==
    /\ op = "volume"
    /\ triangles = ReverseAll(Tris(CubeRecords))
    /\ ret = <<6, 6>>

----------------------------------------------------------------------------
(* Moller-Trumbore's det, u, v and t of a triangle, a ray of numerators    *)
(* over RayDen and an origin, as numerators over one denominator:          *)
(* det = MTdet / RayDen, u = MTu / MTdet, v = MTv / MTdet, t = MTt / MTdet *)

MTdet(triangle, ray) ==
    Dot(Sub(triangle[2], triangle[1]), Cross(ray, Sub(triangle[3], triangle[1])))
MTu(triangle, ray, origin) ==
    Dot(Sub(origin, triangle[1]), Cross(ray, Sub(triangle[3], triangle[1])))
MTv(triangle, ray, origin) ==
    Dot(ray, Cross(Sub(origin, triangle[1]), Sub(triangle[2], triangle[1])))
MTt(triangle, ray, origin) ==
    RayDen * Dot(Sub(triangle[3], triangle[1]),
                 Cross(Sub(origin, triangle[1]), Sub(triangle[2], triangle[1])))

Sign(x) == IF x < 0 THEN -1 ELSE IF x > 0 THEN 1 ELSE 0

\* |det| >= tol, tol <= u <= 1 - tol, v >= tol, u + v <= 1 - tol, t >= tol,
\* each inequality multiplied out by the denominators
WithinTolerance(triangle, ray, origin, tol) ==
    LET d == MTdet(triangle, ray)
        s == Sign(d)
        u == s * MTu(triangle, ray, origin)
        v == s * MTv(triangle, ray, origin)
        t == s * MTt(triangle, ray, origin)
    IN  /\ Abs(d) * tol[2] >= tol[1] * RayDen
        /\ u * tol[2] >= tol[1] * Abs(d)
        /\ u * tol[2] <= (tol[2] - tol[1]) * Abs(d)
        /\ v * tol[2] >= tol[1] * Abs(d)
        /\ (u + v) * tol[2] <= (tol[2] - tol[1]) * Abs(d)
        /\ t * tol[2] >= tol[1] * Abs(d)

\* The ray is parallel to the plane of the triangle
Parallel(triangle, ray) == MTdet(triangle, ray) = 0

\* The ray's line meets the plane on an edge of the triangle or outside it
OnOrOutsideEdge(triangle, ray, origin) ==
    LET d == MTdet(triangle, ray)
        s == Sign(d)
        u == s * MTu(triangle, ray, origin)
        v == s * MTv(triangle, ray, origin)
    IN  d # 0 /\ (u <= 0 \/ v <= 0 \/ u + v >= Abs(d))

\* The ray's line meets the plane at the origin of the ray or behind it
AtOrBehindOrigin(triangle, ray, origin) ==
    LET d == MTdet(triangle, ray)
    IN  d # 0 /\ Sign(d) * MTt(triangle, ray, origin) <= 0

\* The ray meets the triangle, its edges and the ray's origin included
Touches(triangle, ray, origin) ==
    LET d == MTdet(triangle, ray)
        s == Sign(d)
        u == s * MTu(triangle, ray, origin)
        v == s * MTv(triangle, ray, origin)
    IN  /\ d # 0
        /\ u >= 0 /\ v >= 0 /\ u + v <= Abs(d)
        /\ s * MTt(triangle, ray, origin) >= 0

(* C4: _ray_intersects returns true iff |det| >= tol, tol <= u <= 1 - tol, *)
(* v >= tol, u + v <= 1 - tol and t >= tol, all with the one tol; it        *)
(* returns false for a ray parallel to the triangle's plane, for a hit on   *)
(* or outside an edge and for a hit at or behind the origin of the ray.     *)
C4_TrueIffWithinTolerance ==
    op = "_ray_intersects" =>
        /\ ret <=> WithinTolerance(args.triangle, args.ray, args.origin, args.tol)
        /\ Parallel(args.triangle, args.ray) => ~ret
        /\ OnOrOutsideEdge(args.triangle, args.ray, args.origin) => ~ret
        /\ AtOrBehindOrigin(args.triangle, args.ray, args.origin) => ~ret

\* A hit accepted with u exactly tol
C4_Witness ==
    /\ op = "_ray_intersects"
    /\ ret = TRUE
    /\ Sign(MTdet(args.triangle, args.ray)) * MTu(args.triangle, args.ray, args.origin)
           * args.tol[2] = args.tol[1] * Abs(MTdet(args.triangle, args.ray))

\* p lies strictly between the least and the greatest vertex coordinate on
\* every axis: strictly inside, when the mesh is a box
StrictlyInsideBox(p) ==
    \A a \in 1..3 :
        /\ \E x \in Coordinates(triangles, a) : x < p[a]
        /\ \E x \in Coordinates(triangles, a) : x > p[a]

\* The direction is not the zero vector, and every triangle the ray meets
\* it meets within the tolerances of _ray_intersects
CleanRay(p, ray, tol) ==
    /\ ray # <<0, 0, 0>>
    /\ \A n \in 1..Len(triangles) :
        Touches(triangles[n], ray, p)
            => WithinTolerance(triangles[n], ray, p, tol)

(* C5, as claimed: on a closed convex surface every query point strictly    *)
(* inside is classified 1 and every query point strictly outside 0, for     *)
(* every direction the classifier can draw (the zero vector set aside).     *)
C5_EveryDirection ==
    Returned =>
        \A c \in DOMAIN ret.data :
            /\ StrictlyOutsideBox(QueryPoint(c)) => ret.data[c] = 0
            /\ (StrictlyInsideBox(QueryPoint(c))
                    /\ work.cells[c].ray # <<0, 0, 0>>)
                => ret.data[c] = 1

(* C5, amended: on a closed convex surface every query point outside the    *)
(* bounding box is classified 0 for every direction, and every query point  *)
(* strictly inside is classified 1 for every nonzero direction whose ray    *)
(* meets each triangle it meets within the tolerances of the intersection   *)
(* test.                                                                   *)
C5_CleanDirections ==
    Returned =>
        \A c \in DOMAIN ret.data :
            /\ StrictlyOutsideBox(QueryPoint(c)) => ret.data[c] = 0
            /\ (StrictlyInsideBox(QueryPoint(c))
                    /\ CleanRay(QueryPoint(c), work.cells[c].ray, args.tol))
                => ret.data[c] = 1

\* A point strictly inside, classified 1 along a ray that is clean
C5_Witness ==
    /\ Returned
    /\ \E c \in DOMAIN ret.data :
        /\ StrictlyInsideBox(QueryPoint(c))
        /\ CleanRay(QueryPoint(c), work.cells[c].ray, args.tol)
        /\ ret.data[c] = 1

----------------------------------------------------------------------------
\* the value of cell c in _check_points run in sequence with the rays drawn
SequentialValue(c) ==
    CheckPoints(triangles, work.bounding_box, args.mesh_x, args.mesh_y,
                args.mesh_z, args.tol, work.rays).cells[c].value

(* C11: during a pass of _check_points every cell of inside is assigned at *)
(* most once and only by the iteration with the cell's own (i, j, k), no   *)
(* iteration reads inside, a cell once assigned holds the value the        *)
(* sequential loop gives it for the ray drawn there, and when the volume   *)
(* is returned every cell has been assigned exactly once, so the volume is *)
(* the one the sequential loop returns for the rays drawn, whatever the    *)
(* interleaving of the iterations.                                         *)
C11_DisjointWritesThenReturn ==
    (op = "_check_points" \/ (op = "points_inside" /\ err = NoError)) =>
        /\ work.reads = {}
        /\ \A c \in Cells(ParShape) :
              /\ Len(work.writes[c]) <= 1
              /\ Len(work.writes[c]) = 1 =>
                    /\ work.writes[c][1] = c
                    /\ work.inside[c] = SequentialValue(c)
        /\ op = "points_inside" =>
              /\ \A c \in Cells(ParShape) : Len(work.writes[c]) = 1
              /\ ret.shape = ParShape
              /\ \A c \in Cells(ParShape) : ret.data[c] = SequentialValue(c)

\* A returned volume with a row whose two iterations both counted
\* intersections, one cell of it being 1
C11_Witness ==
    /\ op = "points_inside"
    /\ err = NoError
    /\ \E i \in 0..(ParShape[1] - 1), j \in 0..(ParShape[2] - 1) :
          /\ \A k \in Workers : work.rays[<<i, j, k>>] # NoRay
          /\ \E k \in Workers : ret.data[<<i, j, k>>] = 1
    /\ \E c \in Cells(ParShape) : work.rays[c] = NoRay

----------------------------------------------------------------------------
\* some vertex of the mesh has a negative coordinate, which no file loaded
\* here has: the mesh has been scaled by a negative factor
Mirrored == \E a \in 1..3 : \E x \in Coordinates(triangles, a) : x < 0

(* C12: bounding_box is computed from the vertex coordinates the mesh has  *)
(* when it is called, whatever calls of apply_scale and shift_object came  *)
(* before: per axis it returns a least and a greatest coordinate of the    *)
(* current vertices, least first, also after a negative scale factor; and  *)
(* a classification short-circuits exactly the points strictly outside the *)
(* box of the current vertices.                                            *)
C12_BoxOfCurrentVertices ==
    /\ (op = "bounding_box" /\ err = NoError) =>
          \A a \in 1..3 :
              /\ ret[a][1] \in Coordinates(triangles, a)
              /\ ret[a][2] \in Coordinates(triangles, a)
              /\ \A x \in Coordinates(triangles, a) :
                    ret[a][1] <= x /\ x <= ret[a][2]
              /\ ret[a][1] <= ret[a][2]
    /\ Returned =>
          \A c \in DOMAIN ret.data :
              (work.cells[c].ray = NoRay) <=> StrictlyOutsideBox(QueryPoint(c))

\* A classification on a mesh mirrored by apply_scale, in which a point on
\* the positive side is short-circuited and another cell is not
C12_Witness ==
    /\ Returned
    /\ Mirrored
    /\ \E c \in DOMAIN ret.data :
          /\ work.cells[c].ray = NoRay
          /\ \A a \in 1..3 : QueryPoint(c)[a] > 0

============================================================================
